---- MODULE Spec2Model ----
(***************************************************************************)
(* Model of the CSV-to-transaction converter of lcl-ynab-go (cmd/push):    *)
(* convert, convertLine, getDate, getPayee, getAmount, getReconciled and   *)
(* createImportID.  Strings are TLA+ strings; a CSV record is a sequence   *)
(* of fields, 1-indexed here (Go's record[k] is record[k+1] below).        *)
(***************************************************************************)
EXTENDS Integers, Sequences, FiniteSets, TLC

\* ------------------------------------------------------------------------
\* Bounds of the model
\* ------------------------------------------------------------------------
MaxLines == 3
MaxRuns == 2
MaxIntDigits == 2
MaxConcLines == 2
MaxRunLines == 2
MaxDuplicates == 2
MaxFracDigits == 4

\* ------------------------------------------------------------------------
\* Program constants
\* ------------------------------------------------------------------------
milliUnit == 1000
lclDateLen == 8

\* ------------------------------------------------------------------------
\* Characters and decimal numbers
\* ------------------------------------------------------------------------
Char(s, i) == SubSeq(s, i, i)

DigitChars == {"0", "1", "2", "3", "4", "5", "6", "7", "8", "9"}

DigitVal(c) ==
  CASE c = "0" -> 0 [] c = "1" -> 1 [] c = "2" -> 2 [] c = "3" -> 3
    [] c = "4" -> 4 [] c = "5" -> 5 [] c = "6" -> 6 [] c = "7" -> 7
    [] c = "8" -> 8 [] c = "9" -> 9

DigitChar(d) ==
  CASE d = 0 -> "0" [] d = 1 -> "1" [] d = 2 -> "2" [] d = 3 -> "3"
    [] d = 4 -> "4" [] d = 5 -> "5" [] d = 6 -> "6" [] d = 7 -> "7"
    [] d = 8 -> "8" [] d = 9 -> "9"

AllDigits(s) == \A i \in 1..Len(s) : Char(s, i) \in DigitChars

RECURSIVE DigitsVal(_)
DigitsVal(s) ==
  IF Len(s) = 0 THEN 0
  ELSE 10 * DigitsVal(SubSeq(s, 1, Len(s) - 1)) + DigitVal(Char(s, Len(s)))

RECURSIVE NatToStr(_)
NatToStr(n) ==
  IF n < 10 THEN DigitChar(n) ELSE NatToStr(n \div 10) \o DigitChar(n % 10)

\* fmt's %v of an int
IntToStr(n) == IF n < 0 THEN "-" \o NatToStr(0 - n) ELSE NatToStr(n)

\* zero-padded decimal of width w, as time.Format writes years, months, days
RECURSIVE Pad(_, _)
Pad(s, w) == IF Len(s) >= w THEN s ELSE Pad("0" \o s, w)

\* ------------------------------------------------------------------------
\* time.Parse / time.Format for the three layouts the program uses
\* ------------------------------------------------------------------------
NoDate == [ok |-> FALSE, y |-> 0, m |-> 0, d |-> 0]

IsLeap(y) == y % 4 = 0 /\ (y % 100 # 0 \/ y % 400 = 0)

daysIn(m, y) ==
  IF m = 2 THEN (IF IsLeap(y) THEN 29 ELSE 28)
  ELSE IF m \in {4, 6, 9, 11} THEN 30 ELSE 31

ValidYMD(y, m, d) ==
  IF m >= 1 /\ m <= 12 /\ d >= 1 /\ d <= daysIn(m, y)
  THEN [ok |-> TRUE, y |-> y, m |-> m, d |-> d]
  ELSE NoDate

\* time.Parse("02/01/2006", s)
ParseLongDate(s) ==
  IF /\ Len(s) = 10
     /\ AllDigits(SubSeq(s, 1, 2)) /\ Char(s, 3) = "/"
     /\ AllDigits(SubSeq(s, 4, 5)) /\ Char(s, 6) = "/"
     /\ AllDigits(SubSeq(s, 7, 10))
  THEN ValidYMD(DigitsVal(SubSeq(s, 7, 10)), DigitsVal(SubSeq(s, 4, 5)),
                DigitsVal(SubSeq(s, 1, 2)))
  ELSE NoDate

\* the two-character year of layout "06": time's atoi accepts a sign
ShortYear(p) ==
  IF AllDigits(p) THEN [ok |-> TRUE, v |-> DigitsVal(p)]
  ELSE IF Char(p, 1) = "+" /\ Char(p, 2) \in DigitChars
       THEN [ok |-> TRUE, v |-> DigitVal(Char(p, 2))]
  ELSE IF Char(p, 1) = "-" /\ Char(p, 2) \in DigitChars
       THEN [ok |-> TRUE, v |-> 0 - DigitVal(Char(p, 2))]
  ELSE [ok |-> FALSE, v |-> 0]

\* time.Parse(lclDateFormat, s) with lclDateFormat = "02/01/06"
ParseShortDate(s) ==
  IF /\ Len(s) = 8
     /\ AllDigits(SubSeq(s, 1, 2)) /\ Char(s, 3) = "/"
     /\ AllDigits(SubSeq(s, 4, 5)) /\ Char(s, 6) = "/"
     /\ ShortYear(SubSeq(s, 7, 8)).ok
  THEN LET yy == ShortYear(SubSeq(s, 7, 8)).v
           y == IF yy >= 69 THEN yy + 1900 ELSE yy + 2000
       IN ValidYMD(y, DigitsVal(SubSeq(s, 4, 5)), DigitsVal(SubSeq(s, 1, 2)))
  ELSE NoDate

\* date.Format("2006-01-02")
FormatDate(t) ==
  Pad(NatToStr(t.y), 4) \o "-" \o Pad(NatToStr(t.m), 2) \o "-"
    \o Pad(NatToStr(t.d), 2)

\* ------------------------------------------------------------------------
\* strings helpers
\* ------------------------------------------------------------------------
RECURSIVE ReplaceAll(_, _, _)
ReplaceAll(s, old, new) ==
  IF Len(s) = 0 THEN ""
  ELSE (IF Char(s, 1) = old THEN new ELSE Char(s, 1))
         \o ReplaceAll(SubSeq(s, 2, Len(s)), old, new)

RECURSIVE TrimLeft(_)
TrimLeft(s) ==
  IF Len(s) > 0 /\ Char(s, 1) = " " THEN TrimLeft(SubSeq(s, 2, Len(s))) ELSE s

RECURSIVE TrimRight(_)
TrimRight(s) ==
  IF Len(s) > 0 /\ Char(s, Len(s)) = " "
  THEN TrimRight(SubSeq(s, 1, Len(s) - 1)) ELSE s

TrimSpace(s) == TrimRight(TrimLeft(s))

\* index of the first "." of s, or 0
RECURSIVE DotPos(_, _)
DotPos(s, i) ==
  IF i > Len(s) THEN 0 ELSE IF Char(s, i) = "." THEN i ELSE DotPos(s, i + 1)

\* strconv.ParseFloat(s, 64) on strings made of a sign, digits and ".":
\* [+-] digits [. digits] with at least one digit.  The value is kept as
\* the integer and fractional digit strings.
ParseFloat(s) ==
  LET neg  == Len(s) > 0 /\ Char(s, 1) = "-"
      sgn  == Len(s) > 0 /\ Char(s, 1) \in {"-", "+"}
      body == IF sgn THEN SubSeq(s, 2, Len(s)) ELSE s
      dot  == DotPos(body, 1)
      ip   == IF dot = 0 THEN body ELSE SubSeq(body, 1, dot - 1)
      fp   == IF dot = 0 THEN "" ELSE SubSeq(body, dot + 1, Len(body))
  IN IF AllDigits(ip) /\ AllDigits(fp) /\ Len(ip) + Len(fp) > 0
     THEN [ok |-> TRUE, neg |-> neg, int |-> ip, frac |-> fp]
     ELSE [ok |-> FALSE, neg |-> FALSE, int |-> "", frac |-> ""]

\* int(amntFloat * milliUnit): the product truncated toward zero.  With
\* milliUnit = 1000 this keeps the first three fractional digits.  The
\* product is computed on the decimal digits; the binary rounding of the
\* float64 product is not represented (the amounts of the sample rows are
\* ones on which both agree).
Truncate(f) ==
  LET frac3 == SubSeq(f.frac \o "000", 1, 3)
      mag   == DigitsVal(f.int) * milliUnit + DigitsVal(frac3)
  IN IF f.neg THEN 0 - mag ELSE mag

\* ------------------------------------------------------------------------
\* The converter
\* ------------------------------------------------------------------------
getAmount(amnt) ==
  LET amntFloat == ParseFloat(ReplaceAll(amnt, ",", "."))
  IN IF ~amntFloat.ok THEN [err |-> "parsing amount", amount |-> 0]
     ELSE [err |-> "nil", amount |-> Truncate(amntFloat)]

getDate(recordString) ==
  IF Len(recordString) < lclDateLen THEN NoDate
  ELSE ParseShortDate(SubSeq(recordString, Len(recordString) - 8 + 1,
                             Len(recordString)))

\* getPayee cutting the date off without trimming what is left
getPayeeNoTrim(recordString) ==
  IF Len(recordString) < lclDateLen THEN recordString
  ELSE IF ~ParseShortDate(SubSeq(recordString,
                                 Len(recordString) - lclDateLen + 1,
                                 Len(recordString))).ok
       THEN recordString
  ELSE SubSeq(recordString, 1, Len(recordString) - lclDateLen)

getPayee(recordString) ==
  IF Len(recordString) < lclDateLen THEN recordString
  ELSE IF ~ParseShortDate(SubSeq(recordString,
                                 Len(recordString) - lclDateLen + 1,
                                 Len(recordString))).ok
       THEN recordString
  ELSE TrimSpace(SubSeq(recordString, 1, Len(recordString) - lclDateLen))

\* importIDs is a Go map: a function whose domain is the set of keys present
MapGet(m, k) == IF k \in DOMAIN m THEN m[k] ELSE 0

MapPut(m, k, v) == [x \in DOMAIN m \cup {k} |-> IF x = k THEN v ELSE m[x]]

EmptyMap == [x \in {} |-> 0]

\* createImportID forgetting to store the incremented occurrence
createImportIDNoStore(amount, date, ids) ==
  LET importID   == "YNAB:" \o IntToStr(amount) \o ":" \o date
      occurrence == MapGet(ids, importID) + 1
  IN [id  |-> importID \o ":" \o IntToStr(occurrence),
      ids |-> ids]

\* createImportID keyed by the amount alone
createImportIDAmountKey(amount, date, ids) ==
  LET key        == "YNAB:" \o IntToStr(amount)
      occurrence == MapGet(ids, key) + 1
  IN [id  |-> key \o ":" \o date \o ":" \o IntToStr(occurrence),
      ids |-> MapPut(ids, key, occurrence)]

createImportID(amount, date, ids) ==
  LET importID   == "YNAB:" \o IntToStr(amount) \o ":" \o date
      occurrence == MapGet(ids, importID) + 1
  IN [id  |-> importID \o ":" \o IntToStr(occurrence),
      ids |-> MapPut(ids, importID, occurrence)]

NoTransaction ==
  [AccountID |-> "", Date |-> "", Amount |-> 0, PayeeName |-> "",
   Memo |-> "", Cleared |-> "", ImportID |-> ""]

\* the struct literal with the payee name written to Memo as well
TransactionMemoFromPayee(acct, date, payee, memo, amount, importID) ==
  [AccountID |-> acct, Date |-> date, PayeeName |-> payee, Memo |-> payee,
   Amount |-> amount, ImportID |-> importID, Cleared |-> "cleared"]

\* the Transaction literal of convertLine
Transaction(acct, date, payee, memo, amount, importID) ==
  [AccountID |-> acct, Date |-> date, PayeeName |-> payee, Memo |-> memo,
   Amount |-> amount, ImportID |-> importID, Cleared |-> "cleared"]

\* the description field: record[4], or record[5] for a positive amount
\* the comparison written as >= 0
usesCreditFromZero(amount) == amount >= 0

usesCredit(amount) == amount > 0

\* convertLine handing the payee to createImportID in place of the date
convertLineKeyedByPayee(record, acct, ids) ==
  LET date == ParseLongDate(record[1])
  IN IF ~date.ok
     THEN [kind |-> "err", err |-> "parsing date", tx |-> NoTransaction,
           ids |-> ids]
     ELSE IF Len(record) < 2
     THEN [kind |-> "panic", err |-> "nil", tx |-> NoTransaction, ids |-> ids]
     ELSE LET a == getAmount(record[2])
          IN IF a.err # "nil"
             THEN [kind |-> "err", err |-> a.err, tx |-> NoTransaction,
                   ids |-> ids]
             ELSE IF Len(record) < 5 \/ (usesCredit(a.amount) /\ Len(record) < 6)
             THEN [kind |-> "panic", err |-> "nil", tx |-> NoTransaction,
                   ids |-> ids]
             ELSE LET recordString  == IF usesCredit(a.amount) THEN record[6]
                                       ELSE record[5]
                      specificDate  == getDate(recordString)
                      formattedDate == FormatDate(IF specificDate.ok
                                                  THEN specificDate ELSE date)
                      payee         == getPayee(recordString)
                      imp           == createImportID(a.amount, payee, ids)
                  IN [kind |-> "ok", err |-> "nil",
                      tx |-> Transaction(acct, formattedDate, payee,
                                         recordString, a.amount, imp.id),
                      ids |-> imp.ids]

\* convertLine(record, acct, ids): kind is "ok" (a transaction and the
\* updated map), "err" (an error is returned) or "panic" (an index out of
\* range of the record).
convertLine(record, acct, ids) ==
  LET date == ParseLongDate(record[1])
  IN IF ~date.ok
     THEN [kind |-> "err", err |-> "parsing date", tx |-> NoTransaction,
           ids |-> ids]
     ELSE IF Len(record) < 2
     THEN [kind |-> "panic", err |-> "nil", tx |-> NoTransaction, ids |-> ids]
     ELSE LET a == getAmount(record[2])
          IN IF a.err # "nil"
             THEN [kind |-> "err", err |-> a.err, tx |-> NoTransaction,
                   ids |-> ids]
             ELSE IF Len(record) < 5 \/ (usesCredit(a.amount) /\ Len(record) < 6)
             THEN [kind |-> "panic", err |-> "nil", tx |-> NoTransaction,
                   ids |-> ids]
             ELSE LET recordString  == IF usesCredit(a.amount) THEN record[6]
                                       ELSE record[5]
                      specificDate  == getDate(recordString)
                      formattedDate == FormatDate(IF specificDate.ok
                                                  THEN specificDate ELSE date)
                      payee         == getPayee(recordString)
                      imp           == createImportID(a.amount, formattedDate,
                                                      ids)
                  IN [kind |-> "ok", err |-> "nil",
                      tx |-> Transaction(acct, formattedDate, payee,
                                         recordString, a.amount, imp.id),
                      ids |-> imp.ids]

\* getReconciled reading the field after the amount
getReconciledNextField(record) ==
  LET a == getAmount(record[3])
  IN IF a.err # "nil" THEN 0 ELSE a.amount

\* getReconciled(record); the caller guards Len(record) >= 2
getReconciled(record) ==
  LET a == getAmount(record[2])
  IN IF a.err # "nil" THEN 0 ELSE a.amount

\* ------------------------------------------------------------------------
\* Input streams.  A stream is the sequence of its lines as encoding/csv
\* sees them with Comma = ';': a record (its fields), a blank line (skipped
\* by the reader) or a malformed line (a quoting error).
\* ------------------------------------------------------------------------
Rec(fields) == [kind |-> "record", fields |-> fields]

RowCredit == Rec(<<"29/10/2024", "80", "Virement", "", "",
                   "VIREMENT M JEAN MARTIN OU", "", "">>)
RowDebit1 == Rec(<<"29/10/2024", "-21,32", "Carte", "",
                   "CB  MERCH1          28/10/24", "", "0", "Divers">>)
RowDebit2 == Rec(<<"28/10/2024", "-21,32", "Prelevement", "",
                   "PRLV SEPA EDF", "", "0", "Divers">>)
RowDebit3 == Rec(<<"29/10/2024", "-21,32", "Cheque", "", "CHQ 1234567", "",
                   "0", "Divers">>)
RowDebit7 == Rec(<<"30/10/2024", "-5", "Carte", "", "CB BAR", "", "0">>)
RowZero == Rec(<<"28/10/2024", "0", "Divers", "", "FRAIS", "REMISE", "", "">>)
RowBadDate == Rec(<<"2024-10-29", "80", "Virement", "", "", "VIR", "", "">>)
RowBadAmount == Rec(<<"29/10/2024", "1.2,5", "Carte", "", "CB  X", "", "0",
                      "Divers">>)
RowFooter == Rec(<<"29/11/2024", "100,06", "", "01234 123456A">>)
RowFooterBad == Rec(<<"29/11/2024", "", "", "01234 123456A">>)
RowOneField == Rec(<<"Solde">>)
LineBlank == [kind |-> "blank", fields |-> <<>>]
LineMalformed == [kind |-> "malformed", fields |-> <<>>]

Lines == {RowCredit, RowDebit1, RowDebit2, RowDebit3, RowDebit7, RowZero, RowBadDate,
          RowBadAmount, RowFooter, RowFooterBad, RowOneField, LineBlank,
          LineMalformed}

RECURSIVE SeqsUpTo(_, _)
SeqsUpTo(S, n) ==
  IF n = 0 THEN {<<>>}
  ELSE LET shorter == SeqsUpTo(S, n - 1)
       IN shorter \cup {Append(q, x) : q \in {r \in shorter : Len(r) = n - 1},
                                      x \in S}

Streams == SeqsUpTo(Lines, MaxLines)

AccountIDs == {"acc-id", "acc-2"}

\* ------------------------------------------------------------------------
\* State
\* ------------------------------------------------------------------------
VARIABLES
  reader,          \* [nil, lines]: the io.Reader handed to convert
  accountID,       \* the account identifier handed to convert
  pc,              \* "idle", "loop", "done" (convert returned), "panic"
  pos,             \* csv.Reader: index of the next unread line
  FieldsPerRecord, \* csv.Reader.FieldsPerRecord (0 until the first record)
  transactions,    \* convert's local slice
  importIDs,       \* convert's local map
  result,          \* what convert returned: [transactions, reconciled, err]
  exit,            \* the return statement convert left by
  run,             \* number of the current call of convert on this input
  first,           \* what the first call returned
  cur,             \* which of two goroutines calling convert is running
  other,           \* the locals of the call of the goroutine that is not
  amnt,            \* the argument of a call of getAmount alone
  amntOut,         \* what that call returned
  rpc,             \* position of run: "off" when convert is called directly
  args,            \* the flag values of the command line of run
  fileOK,          \* whether os.Open finds the file
  stdout,          \* the lines run has written to stdout
  events,          \* the steps run has started and the requests it has sent
  resp,            \* the response to the request of push
  runErr           \* what run returned ("none" while it has not)

\* the state of the callers of convert, which convert does not touch
callerVars == <<cur, other, amnt, amntOut, rpc, args, fileOK, stdout, events,
                resp, runErr>>

vars == <<reader, accountID, pc, pos, FieldsPerRecord, transactions,
          importIDs, result, exit, run, first, callerVars>>

NoResult == [transactions |-> <<>>, reconciled |-> 0, err |-> "none"]

\* the locals of a call of convert
Frame ==
  [reader |-> reader, accountID |-> accountID, pc |-> pc, pos |-> pos,
   FieldsPerRecord |-> FieldsPerRecord, transactions |-> transactions,
   importIDs |-> importIDs, result |-> result, exit |-> exit]

NoFrame ==
  [reader |-> [nil |-> TRUE, lines |-> <<>>], accountID |-> "",
   pc |-> "off", pos |-> 1, FieldsPerRecord |-> 0, transactions |-> <<>>,
   importIDs |-> EmptyMap, result |-> NoResult, exit |-> "none"]

NoAmountOut == [called |-> FALSE, err |-> "nil", amount |-> 0]

NoArgs ==
  [ok |-> TRUE, f |-> "", b |-> "", a |-> "", t |-> "", w |-> "",
   v |-> FALSE]

NoResponse == [ok |-> TRUE, duplicate_import_ids |-> <<>>]

\* no goroutine, no call of getAmount alone, no run
CallersOff ==
  /\ cur = 1
  /\ other = NoFrame
  /\ amnt = ""
  /\ amntOut = NoAmountOut
  /\ rpc = "off"
  /\ args = NoArgs
  /\ fileOK = TRUE
  /\ stdout = <<>>
  /\ events = <<>>
  /\ resp = NoResponse
  /\ runErr = "none"

Init ==
  /\ CallersOff
  /\ reader \in {[nil |-> TRUE, lines |-> <<>>]}
                  \cup {[nil |-> FALSE, lines |-> st] : st \in Streams}
  /\ accountID \in AccountIDs
  /\ pc = "idle"
  /\ pos = 1
  /\ FieldsPerRecord = 0
  /\ transactions = <<>>
  /\ importIDs = EmptyMap
  /\ result = NoResult
  /\ exit = "none"
  /\ run = 1
  /\ first = NoResult

\* csv.Reader.Read skips blank lines: the index of the next line that is
\* not blank, or Len(lines) + 1 at the end of the stream
RECURSIVE NextLine(_, _)
NextLine(lines, i) ==
  IF i > Len(lines) THEN i
  ELSE IF lines[i].kind = "blank" THEN NextLine(lines, i + 1) ELSE i

Return(txs, reconciled, err, site) ==
  /\ result' = [transactions |-> txs, reconciled |-> reconciled, err |-> err]
  /\ exit' = site
  /\ pc' = "done"
  /\ first' = IF run = 1
              THEN [transactions |-> txs, reconciled |-> reconciled,
                    err |-> err]
              ELSE first

\* convert, lines 117-119: a nil reader
ConvertNil ==
  /\ pc = "idle"
  /\ reader.nil
  /\ Return(<<>>, 0, "nil", "nil reader")
  /\ UNCHANGED callerVars
  /\ UNCHANGED <<reader, accountID, pos, FieldsPerRecord, transactions,
                 importIDs, run>>

\* convert with the occurrence counters kept in a package-level map
ConvertBeginSharedMap ==
  /\ pc = "idle"
  /\ ~reader.nil
  /\ pc' = "loop"
  /\ pos' = 1
  /\ FieldsPerRecord' = 0
  /\ transactions' = <<>>
  /\ UNCHANGED callerVars
  /\ UNCHANGED <<reader, accountID, importIDs, result, exit, run, first>>

\* convert, lines 121-128: a new csv reader, an empty slice, an empty map
ConvertBegin ==
  /\ pc = "idle"
  /\ ~reader.nil
  /\ pc' = "loop"
  /\ pos' = 1
  /\ FieldsPerRecord' = 0
  /\ transactions' = <<>>
  /\ importIDs' = EmptyMap
  /\ UNCHANGED callerVars
  /\ UNCHANGED <<reader, accountID, result, exit, run, first>>

AtEOF == NextLine(reader.lines, pos) > Len(reader.lines)

Current == reader.lines[NextLine(reader.lines, pos)]

\* csv.Reader.Read reports ErrFieldCount for the current record
FieldCountMismatch ==
  /\ Current.kind = "record"
  /\ FieldsPerRecord > 0
  /\ Len(Current.fields) # FieldsPerRecord

\* csv.Reader.Read returns the current record without error
ReadsRecord ==
  /\ Current.kind = "record"
  /\ (FieldsPerRecord = 0 \/ Len(Current.fields) = FieldsPerRecord)

Advance ==
  /\ pos' = NextLine(reader.lines, pos) + 1
  /\ FieldsPerRecord' = IF Current.kind = "record" /\ FieldsPerRecord = 0
                        THEN Len(Current.fields) ELSE FieldsPerRecord

\* the final return written as "return nil, 0, nil"
ReadEOFReturnsNil ==
  /\ pc = "loop"
  /\ AtEOF
  /\ pos' = NextLine(reader.lines, pos)
  /\ Return(<<>>, 0, "nil", "eof")
  /\ UNCHANGED callerVars
  /\ UNCHANGED <<reader, accountID, FieldsPerRecord, transactions, importIDs,
                 run>>

\* lines 133-135 and 153: io.EOF
ReadEOF ==
  /\ pc = "loop"
  /\ AtEOF
  /\ pos' = NextLine(reader.lines, pos)
  /\ Return(transactions, 0, "nil", "eof")
  /\ UNCHANGED callerVars
  /\ UNCHANGED <<reader, accountID, FieldsPerRecord, transactions, importIDs,
                 run>>

\* lines 137-139: csv.ErrFieldCount, the footer row
ReadFooter ==
  /\ pc = "loop"
  /\ ~AtEOF
  /\ FieldCountMismatch
  /\ Len(Current.fields) >= 2
  /\ Advance
  /\ Return(transactions, getReconciled(Current.fields), "nil", "footer")
  /\ UNCHANGED callerVars
  /\ UNCHANGED <<reader, accountID, transactions, importIDs, run>>

\* line 229 reached from line 138: record[1] of a one-field footer row
ReadFooterPanic ==
  /\ pc = "loop"
  /\ ~AtEOF
  /\ FieldCountMismatch
  /\ Len(Current.fields) < 2
  /\ Advance
  /\ pc' = "panic"
  /\ exit' = "getReconciled: index out of range"
  /\ UNCHANGED callerVars
  /\ UNCHANGED <<reader, accountID, transactions, importIDs, result, run,
                 first>>

\* lines 141-143: any other read error
ReadError ==
  /\ pc = "loop"
  /\ ~AtEOF
  /\ Current.kind = "malformed"
  /\ Advance
  /\ Return(<<>>, 0, "reading csv line", "read error")
  /\ UNCHANGED callerVars
  /\ UNCHANGED <<reader, accountID, transactions, importIDs, run>>

\* the converted record put in front of the slice
ConvertRowPrepends ==
  /\ pc = "loop"
  /\ ~AtEOF
  /\ ReadsRecord
  /\ LET r == convertLine(Current.fields, accountID, importIDs)
     IN /\ r.kind = "ok"
        /\ transactions' = <<r.tx>> \o transactions
        /\ importIDs' = r.ids
  /\ Advance
  /\ UNCHANGED callerVars
  /\ UNCHANGED <<reader, accountID, pc, result, exit, run, first>>

\* lines 145-150: the record is converted and appended
ConvertRow ==
  /\ pc = "loop"
  /\ ~AtEOF
  /\ ReadsRecord
  /\ LET r == convertLine(Current.fields, accountID, importIDs)
     IN /\ r.kind = "ok"
        /\ transactions' = Append(transactions, r.tx)
        /\ importIDs' = r.ids
  /\ Advance
  /\ UNCHANGED callerVars
  /\ UNCHANGED <<reader, accountID, pc, result, exit, run, first>>

\* a line error returning the transactions converted so far
ConvertRowErrorKeepsRows ==
  /\ pc = "loop"
  /\ ~AtEOF
  /\ ReadsRecord
  /\ LET r == convertLine(Current.fields, accountID, importIDs)
     IN /\ r.kind = "err"
        /\ Return(transactions, 0, "converting line: " \o r.err, "line error")
  /\ Advance
  /\ UNCHANGED callerVars
  /\ UNCHANGED <<reader, accountID, transactions, importIDs, run>>

\* lines 145-148: convertLine fails
ConvertRowError ==
  /\ pc = "loop"
  /\ ~AtEOF
  /\ ReadsRecord
  /\ LET r == convertLine(Current.fields, accountID, importIDs)
     IN /\ r.kind = "err"
        /\ Return(<<>>, 0, "converting line: " \o r.err, "line error")
  /\ Advance
  /\ UNCHANGED callerVars
  /\ UNCHANGED <<reader, accountID, transactions, importIDs, run>>

\* lines 162, 167, 169: convertLine indexes a field the record does not have
ConvertRowPanic ==
  /\ pc = "loop"
  /\ ~AtEOF
  /\ ReadsRecord
  /\ convertLine(Current.fields, accountID, importIDs).kind = "panic"
  /\ Advance
  /\ pc' = "panic"
  /\ exit' = "convertLine: index out of range"
  /\ UNCHANGED callerVars
  /\ UNCHANGED <<reader, accountID, transactions, importIDs, result, run,
                 first>>

\* convert is called again on the same bytes with the same account
Rerun ==
  /\ pc = "done"
  /\ run < MaxRuns
  /\ run' = run + 1
  /\ pc' = "idle"
  /\ result' = NoResult
  /\ exit' = "none"
  /\ UNCHANGED callerVars
  /\ UNCHANGED <<reader, accountID, pos, FieldsPerRecord, transactions,
                 importIDs, first>>

Next ==
  \/ ConvertNil
  \/ ConvertBegin
  \/ ReadEOF
  \/ ReadFooter
  \/ ReadFooterPanic
  \/ ReadError
  \/ ConvertRow
  \/ ConvertRowError
  \/ ConvertRowPanic
  \/ Rerun

Spec == Init /\ [][Next]_vars

TypeOK ==
  /\ pc \in {"off", "idle", "loop", "done", "panic"}
  /\ run \in 1..MaxRuns
  /\ pos \in 1..(Len(reader.lines) + 1)

\* ------------------------------------------------------------------------
\* Reference notions used by the properties
\* ------------------------------------------------------------------------
Succeeded == pc = "done" /\ result.err = "nil"

\* number of lines the csv reader of the current call has consumed
Consumed == IF pc = "idle" THEN 0 ELSE pos - 1

IsRecord(i) == reader.lines[i].kind = "record"

Fields(i) == reader.lines[i].fields

\* index of the first record of the stream, or 0
FirstRecord ==
  IF \E i \in 1..Len(reader.lines) : IsRecord(i)
  THEN CHOOSE i \in 1..Len(reader.lines) :
         IsRecord(i) /\ \A j \in 1..(i - 1) : ~IsRecord(j)
  ELSE 0

\* line i is a record whose field count differs from the first record's
IsFooterAt(i) ==
  /\ IsRecord(i)
  /\ FirstRecord # 0 /\ FirstRecord < i
  /\ Len(Fields(i)) # Len(Fields(FirstRecord))

\* the transactions obtained by converting the records among lines 1..n in
\* order with one fresh occurrence map
RECURSIVE ConvertedUpTo(_, _, _)
ConvertedUpTo(lines, n, acct) ==
  IF n = 0 THEN [txs |-> <<>>, ids |-> EmptyMap]
  ELSE LET before == ConvertedUpTo(lines, n - 1, acct)
       IN IF lines[n].kind # "record" THEN before
          ELSE LET r == convertLine(lines[n].fields, acct, before.ids)
               IN IF r.kind = "ok"
                  THEN [txs |-> Append(before.txs, r.tx), ids |-> r.ids]
                  ELSE before

RecordsUpTo(n) == Cardinality({i \in 1..n : IsRecord(i)})

SameKey(t, u) == t.Amount = u.Amount /\ t.Date = u.Date

\* ------------------------------------------------------------------------
\* Properties
\* ------------------------------------------------------------------------

\* C1: whenever convert succeeds, the import_id values of the returned
\* transactions are pairwise distinct, also for transactions with the same
\* amount and the same output date.
C1_ImportIDsDistinct ==
  Succeeded =>
    \A i, j \in 1..Len(result.transactions) :
      i # j => result.transactions[i].ImportID # result.transactions[j].ImportID

\* convert has succeeded and returned two transactions of equal amount and date
C1_Witness ==
  /\ Succeeded
  /\ \E i, j \in 1..Len(result.transactions) :
       i < j /\ SameKey(result.transactions[i], result.transactions[j])

\* C2: every returned transaction has import_id "YNAB:<amount>:<date>:<k>"
\* built from its own output amount and output date, k being the number of
\* transactions up to and including it, in input order, with that amount and
\* date.
C2_ImportIDFormat ==
  pc = "done" =>
    \A i \in 1..Len(result.transactions) :
      LET t == result.transactions[i]
          k == Cardinality({j \in 1..i : SameKey(result.transactions[j], t)})
      IN t.ImportID = "YNAB:" \o IntToStr(t.Amount) \o ":" \o t.Date \o ":"
                        \o IntToStr(k)

\* two transactions of amount -21,32 dated 2024-10-28, the first by its
\* embedded date and the second by its field-0 date, numbered 1 and 2, next
\* to a transaction of another key numbered 1
C2_Witness ==
  /\ Succeeded
  /\ Len(result.transactions) = 3
  /\ result.transactions[1].Memo = "CB  MERCH1          28/10/24"
  /\ result.transactions[1].ImportID = "YNAB:-21320:2024-10-28:1"
  /\ result.transactions[2].ImportID = "YNAB:80000:2024-10-29:1"
  /\ result.transactions[3].Memo = "PRLV SEPA EDF"
  /\ result.transactions[3].ImportID = "YNAB:-21320:2024-10-28:2"

\* C3: a second call of convert on the same bytes with the same account
\* returns exactly what the first call returned: the same transactions field
\* by field, the same reconciled balance, the same error or absence of error.
C3_RerunIdentical ==
  (pc = "done" /\ run > 1) => result = first

\* the second call has returned transactions with a repeated amount and date
C3_Witness ==
  /\ run = 2
  /\ C1_Witness
  /\ result.reconciled # 0

\* C4: once convert has read a footer row (a record whose field count
\* differs from the transaction-row shape) it has returned without error,
\* with exactly the transactions converted from the records before that row,
\* and it has read nothing after it.
C4_FooterStops ==
  \A i \in 1..Consumed :
    IsFooterAt(i) =>
      /\ Succeeded
      /\ pos = i + 1
      /\ result.transactions = ConvertedUpTo(reader.lines, i - 1, accountID).txs
      /\ Len(result.transactions) = RecordsUpTo(i - 1)

\* the same for footer rows that have a field 1
C4_FooterWithBalanceStops ==
  \A i \in 1..Consumed :
    (IsFooterAt(i) /\ Len(Fields(i)) >= 2) =>
      /\ Succeeded
      /\ pos = i + 1
      /\ result.transactions = ConvertedUpTo(reader.lines, i - 1, accountID).txs
      /\ Len(result.transactions) = RecordsUpTo(i - 1)

\* a row of 6 to 8 fields is a transaction line; the transaction lines of
\* the input are those before the first record of another shape
IsTransactionLine(i) == IsRecord(i) /\ Len(Fields(i)) \in 6..8

TransactionLines ==
  {i \in 1..Len(reader.lines) :
     /\ IsTransactionLine(i)
     /\ \A j \in 1..(i - 1) : IsRecord(j) => IsTransactionLine(j)}

\* C5: convert never returns success while a transaction line of the input
\* has been dropped: on success there is one transaction per transaction
\* line, also when transaction rows have different column counts.
C5_AllOrNone ==
  Succeeded => Len(result.transactions) = Cardinality(TransactionLines)

\* the same for inputs whose transaction lines all have one column count
C5_AllOrNoneUniformShape ==
  (Succeeded /\ \A i, j \in TransactionLines :
                  Len(Fields(i)) = Len(Fields(j)))
    => Len(result.transactions) = Cardinality(TransactionLines)

\* C6: convert always returns, a result or an error; it never aborts on an
\* index out of range.
C6_NeverPanics == pc # "panic"

\* field 0 or field 1 of record i does not parse
BadDate(i) == ~ParseLongDate(Fields(i)[1]).ok

BadAmount(i) == Len(Fields(i)) >= 2 /\ getAmount(Fields(i)[2]).err # "nil"

\* C7: once a transaction row with an invalid field 0 or field 1 has been
\* read, convert has returned an error naming the failing stage, with no
\* transactions and a reconciled balance of 0.
C7_ParseErrorAborts ==
  \A i \in 1..Consumed :
    (IsRecord(i) /\ ~IsFooterAt(i) /\ (BadDate(i) \/ BadAmount(i))) =>
      /\ pc = "done"
      /\ result.transactions = <<>>
      /\ result.reconciled = 0
      /\ result.err = IF BadDate(i) THEN "converting line: parsing date"
                      ELSE "converting line: parsing amount"

\* a row with an unparsable amount was read after rows had been converted,
\* and none of them is returned
C7_Witness ==
  /\ pc = "done"
  /\ Len(transactions) >= 1
  /\ result.transactions = <<>>
  /\ result.err = "converting line: parsing amount"
  /\ IsRecord(Consumed) /\ BadAmount(Consumed) /\ ~BadDate(Consumed)

\* C8: after a footer row, the reconciled balance is the footer's field 1
\* under the amount rule (value x 1000), or 0 when that field does not
\* parse; in both cases convert succeeds with the transactions converted
\* before the footer.
C8_Reconciled ==
  pc = "done" =>
    \A i \in 1..Consumed :
      IsFooterAt(i) =>
        LET a == getAmount(Fields(i)[2])
        IN /\ result.err = "nil"
           /\ result.reconciled = IF a.err = "nil" THEN a.amount ELSE 0
           /\ result.transactions =
                ConvertedUpTo(reader.lines, i - 1, accountID).txs
           /\ (Fields(i)[2] = "100,06" => result.reconciled = 100060)

\* a footer whose field 1 does not parse was read after two converted rows
C8_Witness ==
  /\ Succeeded
  /\ Consumed >= 1 /\ IsFooterAt(Consumed)
  /\ getAmount(Fields(Consumed)[2]).err # "nil"
  /\ Len(result.transactions) = 2
  /\ result.reconciled = 0

\* C9: a nil reader and an empty stream give no transactions, a reconciled
\* balance of 0 and no error; a stream that ends without a footer row gives
\* every row converted and a reconciled balance of 0.
C9_NoFooter ==
  /\ (pc = "done" /\ (reader.nil \/ reader.lines = <<>>)) =>
        result = [transactions |-> <<>>, reconciled |-> 0, err |-> "nil"]
  /\ (pc = "done" /\ exit = "eof") =>
        /\ result.err = "nil"
        /\ result.reconciled = 0
        /\ \A i \in 1..Len(reader.lines) : ~IsFooterAt(i)
        /\ Len(result.transactions) = RecordsUpTo(Len(reader.lines))
        /\ result.transactions =
             ConvertedUpTo(reader.lines, Len(reader.lines), accountID).txs

\* the stream ended after three converted rows and no footer
C9_Witness ==
  /\ Succeeded
  /\ exit = "eof"
  /\ Len(result.transactions) = 3
  /\ result.reconciled = 0

\* the n-th record of the stream
RECURSIVE NthRecord(_, _)
NthRecord(n, from) ==
  IF IsRecord(from)
  THEN (IF n = 1 THEN Fields(from) ELSE NthRecord(n - 1, from + 1))
  ELSE NthRecord(n, from + 1)

\* C10: the description of a transaction is field 4 of its row when its
\* amount is <= 0 and field 5 when its amount is > 0.
C10_DescriptionField ==
  pc # "idle" =>
    \A i \in 1..Len(transactions) :
      LET f == NthRecord(i, 1)
      IN transactions[i].Memo = IF transactions[i].Amount <= 0 THEN f[5]
                                ELSE f[6]

\* a row of amount 0 was converted with its field 4 as description, next to
\* a credit converted with its field 5
C10_Witness ==
  /\ pc = "done"
  /\ \E i \in 1..Len(transactions) :
       transactions[i].Amount = 0 /\ transactions[i].Memo = "FRAIS"
  /\ \E i \in 1..Len(transactions) :
       /\ transactions[i].Amount > 0
       /\ transactions[i].Memo = "VIREMENT M JEAN MARTIN OU"

\* the description convertLine chose for a converted row f of amount a
Description(f, a) == IF a <= 0 THEN f[5] ELSE f[6]

\* the last 8 characters of s are a DD/MM/YY date
EndsWithDate(s) ==
  Len(s) >= 8 /\ ParseShortDate(SubSeq(s, Len(s) - 7, Len(s))).ok

\* C11: for every converted row, when the chosen description has at least 8
\* characters and its last 8 parse as DD/MM/YY, the output date is that
\* embedded date and the payee is the description without these 8
\* characters, trimmed; otherwise the output date is the field-0 date and
\* the payee is the description unmodified.  A description without a date
\* is never an error: convertLine fails only on field 0 or field 1.
C11_EmbeddedDate ==
  /\ pc # "idle" =>
       \A i \in 1..Len(transactions) :
         LET f == NthRecord(i, 1)
             t == transactions[i]
             s == Description(f, t.Amount)
         IN IF EndsWithDate(s)
            THEN /\ t.Date = FormatDate(ParseShortDate(
                                          SubSeq(s, Len(s) - 7, Len(s))))
                 /\ t.PayeeName = TrimSpace(SubSeq(s, 1, Len(s) - 8))
                 /\ (s = "CB  MERCH1          28/10/24" =>
                       t.Date = "2024-10-28" /\ t.PayeeName = "CB  MERCH1")
            ELSE /\ t.Date = FormatDate(ParseLongDate(f[1]))
                 /\ t.PayeeName = s
  /\ (pc = "done" /\ exit = "line error") =>
       (BadDate(Consumed) \/ BadAmount(Consumed))

\* a row dated by its embedded date (which differs from field 0) and a row
\* dated by field 0 with its description kept as payee were both converted
C11_Witness ==
  /\ Succeeded
  /\ \E i \in 1..Len(result.transactions) :
       /\ result.transactions[i].Memo = "CB  MERCH1          28/10/24"
       /\ result.transactions[i].Date = "2024-10-28"
       /\ NthRecord(i, 1)[1] = "29/10/2024"
       /\ result.transactions[i].PayeeName = "CB  MERCH1"
  /\ \E i \in 1..Len(result.transactions) :
       /\ result.transactions[i].PayeeName = "CHQ 1234567"
       /\ result.transactions[i].Date = "2024-10-29"

\* C12: every returned transaction has memo equal to the chosen description
\* verbatim, account_id equal to the account identifier handed to convert
\* and cleared equal to "cleared".
C12_MemoAccountCleared ==
  pc = "done" =>
    \A i \in 1..Len(result.transactions) :
      LET t == result.transactions[i]
      IN /\ t.Memo = Description(NthRecord(i, 1), t.Amount)
         /\ t.AccountID = accountID
         /\ t.Cleared = "cleared"

\* a transaction whose payee was stripped of its date keeps the full
\* description as memo, for the second account identifier
C12_Witness ==
  /\ Succeeded
  /\ accountID = "acc-2"
  /\ \E i \in 1..Len(result.transactions) :
       /\ result.transactions[i].Memo = "CB  MERCH1          28/10/24"
       /\ result.transactions[i].PayeeName # result.transactions[i].Memo
       /\ result.transactions[i].AccountID = "acc-2"

\* the lines read as transaction rows once convert has returned
RowsRead ==
  IF Consumed >= 1 /\ IsFooterAt(Consumed) THEN Consumed - 1 ELSE Consumed

\* one step of the loop leaves the transactions in place and adds at most
\* one at the end, exactly when a row was converted
AppendOnlyStep ==
  (pc = "loop" /\ pc' # "idle") =>
    /\ Len(transactions') \in {Len(transactions), Len(transactions) + 1}
    /\ SubSeq(transactions', 1, Len(transactions)) = transactions
    /\ (Len(transactions') = Len(transactions) + 1) <=>
         (pc' = "loop" /\ pos' > pos)

\* C16: during one call the output sequence is append-only: a processed
\* transaction row adds exactly one transaction at the end, no other step
\* changes the sequence, and on success the i-th returned transaction is the
\* conversion of the i-th row read.
C16_AppendOnly ==
  /\ [][AppendOnlyStep]_vars
  /\ [](Succeeded =>
          /\ result.transactions = transactions
          /\ result.transactions = ConvertedUpTo(reader.lines, RowsRead,
                                                 accountID).txs
          /\ \A i \in 1..Len(result.transactions) :
               LET f == NthRecord(i, 1)
                   t == result.transactions[i]
               IN /\ t.Amount = getAmount(f[2]).amount
                  /\ t.Memo = Description(f, t.Amount))

\* three rows were converted in file order and returned
C16_Witness ==
  /\ Succeeded
  /\ Len(result.transactions) = 3
  /\ result.transactions[1].Memo = "VIREMENT M JEAN MARTIN OU"
  /\ result.transactions[2].Memo = "FRAIS"
  /\ result.transactions[3].Memo = "CHQ 1234567"

\* ------------------------------------------------------------------------
\* getAmount called alone on amount strings: an optional "-", up to
\* MaxIntDigits digits, and optionally "," with up to MaxFracDigits digits
\* ------------------------------------------------------------------------
AmountDigits == {"0", "3", "6"}

RECURSIVE DigitStrings(_)
DigitStrings(n) ==
  IF n = 0 THEN {""}
  ELSE LET shorter == DigitStrings(n - 1)
       IN shorter \cup {q \o c : q \in {r \in shorter : Len(r) = n - 1},
                                 c \in AmountDigits}

AmountStrings ==
  {sg \o ip \o fp :
     sg \in {"", "-"},
     ip \in DigitStrings(MaxIntDigits),
     fp \in {""} \cup {"," \o d : d \in DigitStrings(MaxFracDigits)}}

InitAmount ==
  /\ amnt \in AmountStrings
  /\ amntOut = NoAmountOut
  /\ cur = 1
  /\ other = NoFrame
  /\ rpc = "off"
  /\ args = NoArgs
  /\ fileOK = TRUE
  /\ stdout = <<>>
  /\ events = <<>>
  /\ resp = NoResponse
  /\ runErr = "none"
  /\ reader = [nil |-> TRUE, lines |-> <<>>]
  /\ accountID = ""
  /\ pc = "off"
  /\ pos = 1
  /\ FieldsPerRecord = 0
  /\ transactions = <<>>
  /\ importIDs = EmptyMap
  /\ result = NoResult
  /\ exit = "none"
  /\ run = 1
  /\ first = NoResult

\* getAmount(amnt), lines 219-226
CallGetAmount ==
  /\ rpc = "off" /\ pc = "off"
  /\ ~amntOut.called
  /\ LET r == getAmount(amnt)
     IN amntOut' = [called |-> TRUE, err |-> r.err, amount |-> r.amount]
  /\ UNCHANGED <<reader, accountID, pc, pos, FieldsPerRecord, transactions,
                 importIDs, result, exit, run, first, cur, other, amnt, rpc,
                 args, fileOK, stdout, events, resp, runErr>>

NextAmount == CallGetAmount

SpecAmount == InitAmount /\ [][NextAmount]_vars

\* v x 1000 rounded to the nearest integer (halves away from zero), v being
\* the decimal value of s with "," read as the decimal point
RoundMilli(s) ==
  LET f     == ParseFloat(ReplaceAll(s, ",", "."))
      frac4 == SubSeq(f.frac \o "0000", 1, 4)
      mag   == DigitsVal(f.int) * 1000 + DigitsVal(SubSeq(frac4, 1, 3))
                 + (IF DigitVal(Char(frac4, 4)) >= 5 THEN 1 ELSE 0)
  IN IF f.neg THEN 0 - mag ELSE mag

\* C13: for every amount string with "," as decimal separator, getAmount
\* returns round(v x 1000), v being its decimal value, also for negative
\* amounts and for amounts with more than 3 fractional digits.
C13_AmountRounded ==
  (amntOut.called /\ amntOut.err = "nil") => amntOut.amount = RoundMilli(amnt)

\* the same for amounts with at most 3 fractional digits
C13_AmountExactUpTo3Digits ==
  (amntOut.called /\ amntOut.err = "nil"
     /\ Len(ParseFloat(ReplaceAll(amnt, ",", ".")).frac) <= 3)
    => amntOut.amount = RoundMilli(amnt)

\* ------------------------------------------------------------------------
\* Two goroutines, each calling convert on its own stream (the parallel
\* subtests of Test_convert).  The variables of convert hold the call of
\* the running goroutine, other holds the locals of the suspended one.
\* ------------------------------------------------------------------------
RowDebit4 == Rec(<<"29/10/2024", "-21,32", "Carte", "",
                   "CB  MERCH2          28/10/24", "", "0", "Divers">>)

ConcLines == {RowDebit1, RowDebit4, RowDebit3, RowFooter}

ConcStreams == SeqsUpTo(ConcLines, MaxConcLines)

InitConc ==
  /\ reader \in {[nil |-> FALSE, lines |-> st] : st \in ConcStreams}
  /\ accountID = "acc-id"
  /\ pc = "idle"
  /\ pos = 1
  /\ FieldsPerRecord = 0
  /\ transactions = <<>>
  /\ importIDs = EmptyMap
  /\ result = NoResult
  /\ exit = "none"
  /\ run = 1
  /\ first = NoResult
  /\ cur = 1
  /\ other \in {[NoFrame EXCEPT !.reader = [nil |-> FALSE, lines |-> st],
                                !.accountID = "acc-2", !.pc = "idle"] :
                  st \in ConcStreams}
  /\ amnt = ""
  /\ amntOut = NoAmountOut
  /\ rpc = "off"
  /\ args = NoArgs
  /\ fileOK = TRUE
  /\ stdout = <<>>
  /\ events = <<>>
  /\ resp = NoResponse
  /\ runErr = "none"

\* the scheduler with the occurrence map as one package-level variable,
\* which stays in place when the goroutines are switched
SwitchSharedMap ==
  /\ rpc = "off"
  /\ pc \in {"idle", "loop", "done"}
  /\ other.pc \in {"idle", "loop"}
  /\ cur' = 3 - cur
  /\ other' = Frame
  /\ reader' = other.reader
  /\ accountID' = other.accountID
  /\ pc' = other.pc
  /\ pos' = other.pos
  /\ FieldsPerRecord' = other.FieldsPerRecord
  /\ transactions' = other.transactions
  /\ result' = other.result
  /\ exit' = other.exit
  /\ UNCHANGED <<importIDs, run, first, amnt, amntOut, args, fileOK, stdout,
                 events, resp, runErr, rpc>>

\* the scheduler suspends the running goroutine and resumes the other one,
\* each with its own parameters and locals of convert (lines 116-128)
Switch ==
  /\ rpc = "off"
  /\ pc \in {"idle", "loop", "done"}
  /\ other.pc \in {"idle", "loop"}
  /\ cur' = 3 - cur
  /\ other' = Frame
  /\ reader' = other.reader
  /\ accountID' = other.accountID
  /\ pc' = other.pc
  /\ pos' = other.pos
  /\ FieldsPerRecord' = other.FieldsPerRecord
  /\ transactions' = other.transactions
  /\ importIDs' = other.importIDs
  /\ result' = other.result
  /\ exit' = other.exit
  /\ UNCHANGED <<run, first, amnt, amntOut, args, fileOK, stdout, events,
                 resp, runErr, rpc>>

NextConc ==
  \/ ConvertBegin
  \/ ReadEOF
  \/ ReadFooter
  \/ ConvertRow
  \/ ConvertRowPanic
  \/ Switch

SpecConc == InitConc /\ [][NextConc]_vars

\* what convert does when it runs alone on a stream: it returns a result or
\* panics
RECURSIVE AloneFrom(_, _, _, _, _, _)
AloneFrom(lines, i, fpr, txs, ids, acct) ==
  LET n == NextLine(lines, i)
  IN IF n > Len(lines)
     THEN [pc |-> "done",
           result |-> [transactions |-> txs, reconciled |-> 0, err |-> "nil"]]
     ELSE IF lines[n].kind = "malformed"
     THEN [pc |-> "done",
           result |-> [transactions |-> <<>>, reconciled |-> 0,
                       err |-> "reading csv line"]]
     ELSE IF fpr > 0 /\ Len(lines[n].fields) # fpr
     THEN (IF Len(lines[n].fields) < 2
           THEN [pc |-> "panic", result |-> NoResult]
           ELSE [pc |-> "done",
                 result |-> [transactions |-> txs,
                             reconciled |-> getReconciled(lines[n].fields),
                             err |-> "nil"]])
     ELSE LET r == convertLine(lines[n].fields, acct, ids)
          IN IF r.kind = "ok"
             THEN AloneFrom(lines, n + 1, Len(lines[n].fields),
                            Append(txs, r.tx), r.ids, acct)
             ELSE IF r.kind = "err"
             THEN [pc |-> "done",
                   result |-> [transactions |-> <<>>, reconciled |-> 0,
                               err |-> "converting line: " \o r.err]]
             ELSE [pc |-> "panic", result |-> NoResult]

Alone(rd, acct) ==
  IF rd.nil
  THEN [pc |-> "done",
        result |-> [transactions |-> <<>>, reconciled |-> 0, err |-> "nil"]]
  ELSE AloneFrom(rd.lines, 1, 0, <<>>, EmptyMap, acct)

\* a call that has ended has ended the way it ends when run alone
AsAlone(F) ==
  F.pc \in {"done", "panic"} =>
    /\ Alone(F.reader, F.accountID).pc = F.pc
    /\ F.pc = "done" => F.result = Alone(F.reader, F.accountID).result

\* C14: the occurrence map is private to one call of convert: under every
\* interleaving of two calls on separate streams, each call returns exactly
\* what it returns when run alone, its suffixes counted over its own rows.
C14_CallsIsolated == AsAlone(Frame) /\ AsAlone(other)

\* the same for the calls made one after the other on one stream
C14_SequentialAsAlone == AsAlone(Frame)

\* a call has returned two transactions of one key numbered 1 and 2 while
\* the other call, suspended in its loop, has counted that key once
C14_Witness ==
  /\ pc = "done"
  /\ Len(result.transactions) = 2
  /\ result.transactions[1].ImportID = "YNAB:-21320:2024-10-28:1"
  /\ result.transactions[2].ImportID = "YNAB:-21320:2024-10-28:2"
  /\ other.pc = "loop"
  /\ Len(other.transactions) = 1
  /\ other.transactions[1].ImportID = "YNAB:-21320:2024-10-28:1"

\* the date a description ends with, or NoDate
EmbeddedDate(s) ==
  IF Len(s) >= 8 THEN ParseShortDate(SubSeq(s, Len(s) - 7, Len(s))) ELSE NoDate

\* two rows with the same field count, amount field, field-0 date and
\* embedded dates in the two description fields
SimilarRow(a, b) ==
  /\ a.kind = b.kind
  /\ Len(a.fields) = Len(b.fields)
  /\ \A k \in 1..Len(a.fields) :
       /\ k \in {1, 2} => a.fields[k] = b.fields[k]
       /\ k \in {5, 6} => EmbeddedDate(a.fields[k]) = EmbeddedDate(b.fields[k])

Similar(s, t) ==
  Len(s) = Len(t) /\ \A i \in 1..Len(s) : SimilarRow(s[i], t[i])

\* the transactions a call has produced so far
TxsOf(F) == IF F.pc = "done" THEN F.result.transactions ELSE F.transactions

\* C19: two calls of convert on inputs that differ only in the account
\* identifier and in description text (same amounts, field-0 dates, embedded
\* dates and field counts) produce the same import_id at every position.
C19_ImportIDsDependOnKeysOnly ==
  Similar(reader.lines, other.reader.lines) =>
    /\ \A i \in 1..Len(TxsOf(Frame)) :
         i <= Len(TxsOf(other)) =>
           TxsOf(Frame)[i].ImportID = TxsOf(other)[i].ImportID
    /\ (pc = "done" /\ other.pc = "done") =>
         Len(result.transactions) = Len(other.result.transactions)

\* both calls have returned two transactions from inputs of different
\* accounts and different description text
C19_Witness ==
  /\ pc = "done"
  /\ other.pc = "done"
  /\ accountID # other.accountID
  /\ reader.lines # other.reader.lines
  /\ Similar(reader.lines, other.reader.lines)
  /\ Len(result.transactions) = 2
  /\ Len(other.result.transactions) = 2
  /\ result.transactions[1].PayeeName # other.result.transactions[1].PayeeName

\* ------------------------------------------------------------------------
\* run (lines 40-86): parseFlags, os.Open, convert, push, send.  reader holds
\* the content of the file named by -f; rpc is the position of run, events
\* the calls and requests it has made, stdout the lines it has written.
\* ------------------------------------------------------------------------
RunLines == {RowCredit, RowDebit1, RowBadDate, LineBlank, RowFooter}

RunStreams == SeqsUpTo(RunLines, MaxRunLines)

\* the flag values after flagset.Parse; ok is FALSE when the command line
\* does not parse
ValidArgs ==
  [ok |-> TRUE, f |-> "lcl.csv", b |-> "bud-id", a |-> "acc", t |-> "tok",
   w |-> "", v |-> FALSE]

ArgSets ==
  {[ValidArgs EXCEPT !.w = w, !.v = v] :
     w \in {"", "http://ha/hook"}, v \in BOOLEAN}
  \cup {[ValidArgs EXCEPT !.f = ""], [ValidArgs EXCEPT !.b = ""],
        [ValidArgs EXCEPT !.a = ""], [ValidArgs EXCEPT !.t = ""],
        [ValidArgs EXCEPT !.ok = FALSE]}

\* what the budgeting API can answer: a failure (transport error or a status
\* the validator rejects) or a body with a list of duplicate import ids
Responses ==
  {[ok |-> FALSE, duplicate_import_ids |-> <<>>]}
  \cup {[ok |-> TRUE, duplicate_import_ids |-> l] :
          l \in SeqsUpTo({"1234"}, MaxDuplicates)}

\* fmt.Sprintf("%.2f", float64(amnt)/milliUnit): the strings the build can
\* print.  The quotient is rounded to two decimals, an exact tie to the even
\* neighbour; when the third decimal is 5 and the quotient has no exact
\* float64 the nearest float64 lies on either side of the tie.
reconciledString(a) ==
  LET neg    == a < 0
      m      == IF neg THEN 0 - a ELSE a
      c      == (m * 100) \div milliUnit
      r      == (m * 100) % milliUnit
      Fmt(k) == (IF neg THEN "-" ELSE "") \o NatToStr(k \div 100) \o "."
                \o Pad(NatToStr(k % 100), 2)
  IN IF 2 * r < milliUnit THEN {Fmt(c)}
     ELSE IF 2 * r > milliUnit THEN {Fmt(c + 1)}
     ELSE IF m % 125 = 0 THEN {Fmt(IF c % 2 = 0 THEN c ELSE c + 1)}
     ELSE {Fmt(c), Fmt(c + 1)}

\* fmt's %+v of one Transaction and of the slice
FormatTransaction(t) ==
  "{AccountID:" \o t.AccountID \o " Date:" \o t.Date \o " Amount:"
  \o IntToStr(t.Amount) \o " PayeeName:" \o t.PayeeName \o " Memo:" \o t.Memo
  \o " Cleared:" \o t.Cleared \o " ImportID:" \o t.ImportID \o "}"

RECURSIVE JoinTransactions(_)
JoinTransactions(txs) ==
  IF Len(txs) = 0 THEN ""
  ELSE IF Len(txs) = 1 THEN FormatTransaction(txs[1])
  ELSE FormatTransaction(txs[1]) \o " " \o JoinTransactions(Tail(txs))

FormatTransactions(txs) == "[" \o JoinTransactions(txs) \o "]"

\* push returning the number of submitted transactions as duplicate count
pushCountsSubmitted(txs, r) ==
  IF Len(txs) = 0
  THEN [sent |-> FALSE, duplicateCount |-> 0, err |-> "nil"]
  ELSE IF ~r.ok
  THEN [sent |-> TRUE, duplicateCount |-> 0, err |-> "pushing transactions"]
  ELSE [sent |-> TRUE, duplicateCount |-> Len(txs), err |-> "nil"]

\* push (lines 245-278) when the API answers r: sent tells whether the POST
\* was issued
push(txs, r) ==
  IF Len(txs) = 0
  THEN [sent |-> FALSE, duplicateCount |-> 0, err |-> "nil"]
  ELSE IF ~r.ok
  THEN [sent |-> TRUE, duplicateCount |-> 0, err |-> "pushing transactions"]
  ELSE [sent |-> TRUE, duplicateCount |-> Len(r.duplicate_import_ids),
        err |-> "nil"]

InitRun ==
  /\ reader \in {[nil |-> FALSE, lines |-> st] : st \in RunStreams}
  /\ accountID = ""
  /\ pc = "off"
  /\ pos = 1
  /\ FieldsPerRecord = 0
  /\ transactions = <<>>
  /\ importIDs = EmptyMap
  /\ result = NoResult
  /\ exit = "none"
  /\ run = 1
  /\ first = NoResult
  /\ cur = 1
  /\ other = NoFrame
  /\ amnt = ""
  /\ amntOut = NoAmountOut
  /\ rpc = "start"
  /\ args \in ArgSets
  /\ fileOK \in BOOLEAN
  /\ stdout = <<>>
  /\ events = <<>>
  /\ resp = NoResponse
  /\ runErr = "none"

convertVars ==
  <<reader, accountID, pc, pos, FieldsPerRecord, transactions, importIDs,
    result, exit, run, first>>

\* lines 50-53 with parseFlags (88-114): a command line that does not parse
\* ends the process (flag.ExitOnError); the required flags are checked in
\* the order f, b, a, t
RunParseFlags ==
  /\ rpc = "start"
  /\ events' = Append(events, "parseFlags")
  /\ IF ~args.ok THEN rpc' = "exited" /\ UNCHANGED runErr
     ELSE IF args.f = ""
     THEN rpc' = "returned" /\ runErr' = "flag is required: -f"
     ELSE IF args.b = ""
     THEN rpc' = "returned" /\ runErr' = "flag is required: -b"
     ELSE IF args.a = ""
     THEN rpc' = "returned" /\ runErr' = "flag is required: -a"
     ELSE IF args.t = ""
     THEN rpc' = "returned" /\ runErr' = "flag is required: -t"
     ELSE rpc' = "open" /\ UNCHANGED runErr
  /\ UNCHANGED <<convertVars, cur, other, amnt, amntOut, args, fileOK, stdout,
                 resp>>

\* lines 55-58
RunOpen ==
  /\ rpc = "open"
  /\ events' = Append(events, "open")
  /\ IF fileOK THEN rpc' = "call" /\ UNCHANGED runErr
     ELSE rpc' = "returned" /\ runErr' = "opening file"
  /\ UNCHANGED <<convertVars, cur, other, amnt, amntOut, args, fileOK, stdout,
                 resp>>

\* line 60: convert is called with the open file and the -a value
RunCallConvert ==
  /\ rpc = "call"
  /\ events' = Append(events, "convert")
  /\ rpc' = "convert"
  /\ pc' = "idle"
  /\ accountID' = args.a
  /\ UNCHANGED <<reader, pos, FieldsPerRecord, transactions, importIDs,
                 result, exit, run, first, cur, other, amnt, amntOut, args,
                 fileOK, stdout, resp, runErr>>

\* lines 61-69: convert has returned
RunConverted ==
  /\ rpc = "convert"
  /\ pc = "done"
  /\ IF result.err # "nil"
     THEN /\ rpc' = "returned"
          /\ runErr' = "converting to YNAB transactions: " \o result.err
          /\ UNCHANGED stdout
     ELSE /\ rpc' = "push"
          /\ \E s \in reconciledString(result.reconciled) :
               stdout' = stdout
                         \o (IF args.v
                             THEN <<"transactions:",
                                    FormatTransactions(result.transactions),
                                    "">>
                             ELSE <<>>)
                         \o <<"reconciled: " \o s \o "€">>
          /\ UNCHANGED runErr
  /\ UNCHANGED <<convertVars, cur, other, amnt, amntOut, args, fileOK, events,
                 resp>>

\* lines 71-77: push and the two report lines
RunPush ==
  /\ rpc = "push"
  /\ \E r \in Responses :
       LET p == push(result.transactions, r)
       IN /\ events' = events \o (IF p.sent THEN <<"push", "POST api">>
                                  ELSE <<"push">>)
          /\ resp' = IF p.sent THEN r ELSE resp
          /\ IF p.err # "nil"
             THEN /\ rpc' = "returned"
                  /\ runErr' = "pushing to YNAB: " \o p.err
                  /\ UNCHANGED stdout
             ELSE /\ rpc' = "webhook"
                  /\ stdout' = stdout
                       \o <<"successfully pushed "
                            \o NatToStr(Len(result.transactions))
                            \o " transaction(s)",
                            "found " \o NatToStr(p.duplicateCount)
                            \o " duplicate(s)">>
                  /\ UNCHANGED runErr
  /\ UNCHANGED <<convertVars, cur, other, amnt, amntOut, args, fileOK>>

\* lines 79-85 notifying the webhook whatever the -w value
RunWebhookAlways ==
  /\ rpc = "webhook"
  /\ rpc' = "returned"
  /\ \E ok \in BOOLEAN :
       /\ events' = events \o <<"send", "POST webhook">>
       /\ runErr' = IF ok THEN "nil" ELSE "sending webhook: sending webhook"
  /\ UNCHANGED <<convertVars, cur, other, amnt, amntOut, args, fileOK, stdout,
                 resp>>

\* lines 79-85 with send (280-297): the webhook request succeeds or fails
RunWebhook ==
  /\ rpc = "webhook"
  /\ rpc' = "returned"
  /\ IF args.w = ""
     THEN runErr' = "nil" /\ UNCHANGED events
     ELSE \E ok \in BOOLEAN :
            /\ events' = events \o <<"send", "POST webhook">>
            /\ runErr' = IF ok THEN "nil"
                         ELSE "sending webhook: sending webhook"
  /\ UNCHANGED <<convertVars, cur, other, amnt, amntOut, args, fileOK, stdout,
                 resp>>

NextRun ==
  \/ RunParseFlags
  \/ RunOpen
  \/ RunCallConvert
  \/ ConvertBegin
  \/ ReadEOF
  \/ ReadFooter
  \/ ConvertRow
  \/ ConvertRowError
  \/ ConvertRowPanic
  \/ RunConverted
  \/ RunPush
  \/ RunWebhook

SpecRun == InitRun /\ [][NextRun]_vars

\* ------------------------------------------------------------------------
\* Properties of run
\* ------------------------------------------------------------------------
Happened(e) == \E i \in 1..Len(events) : events[i] = e

HasPrefix(str, prefix) ==
  Len(str) >= Len(prefix) /\ SubSeq(str, 1, Len(prefix)) = prefix

RunSucceeded == rpc = "returned" /\ runErr = "nil"

PushFailed == rpc = "returned" /\ HasPrefix(runErr, "pushing to YNAB")

\* run has returned, has ended the process or has panicked
RunEnded == rpc \in {"returned", "exited"} \/ pc = "panic"

PushedLine(n) == "successfully pushed " \o NatToStr(n) \o " transaction(s)"

DuplicatesLine(n) == "found " \o NatToStr(n) \o " duplicate(s)"

\* number of entries of the list of the response, 0 when nothing was posted
ResponseDuplicates ==
  IF Happened("POST api") THEN Len(resp.duplicate_import_ids) ELSE 0

\* C15: when run succeeds its standard output ends with the reconciled
\* balance, the number of pushed transactions (the number convert returned)
\* and the number of duplicates (the length of the response's
\* duplicate_import_ids list), in this order; when the push fails neither
\* of the last two lines is written.
C15_StdoutReport ==
  /\ RunSucceeded =>
       /\ Len(stdout) >= 3
       /\ \E s \in reconciledString(result.reconciled) :
            stdout[Len(stdout) - 2] = "reconciled: " \o s \o "€"
       /\ stdout[Len(stdout) - 1] = PushedLine(Len(result.transactions))
       /\ stdout[Len(stdout)] = DuplicatesLine(ResponseDuplicates)
  /\ PushFailed =>
       /\ Len(stdout) >= 1
       /\ HasPrefix(stdout[Len(stdout)], "reconciled: ")
       /\ \A i \in 1..Len(stdout) :
            /\ ~HasPrefix(stdout[i], "successfully pushed")
            /\ ~HasPrefix(stdout[i], "found ")

\* the run of Test_run: one transaction pushed, one duplicate reported
C15_Witness ==
  /\ RunSucceeded
  /\ Happened("POST api")
  /\ stdout = <<"reconciled: 100.06€", "successfully pushed 1 transaction(s)",
                "found 1 duplicate(s)">>

\* a run whose push has failed after the reconciled line
C15_PushFailedReached == PushFailed /\ Len(stdout) = 4

StepRank(e) ==
  CASE e = "parseFlags" -> 1
    [] e = "open" -> 2
    [] e = "convert" -> 3
    [] e = "push" -> 4
    [] e = "POST api" -> 5
    [] e = "send" -> 6
    [] e = "POST webhook" -> 7

ArgsValid ==
  args.ok /\ args.f # "" /\ args.b # "" /\ args.a # "" /\ args.t # ""

\* C17: the steps of run occur in the order parse flags, open file, convert,
\* push, webhook, each at most once and only after the previous one
\* succeeded: no API request when flags, file or conversion fail, the webhook
\* only after a successful push and with a non-empty URL.
C17_StepOrder ==
  /\ \A i \in 1..(Len(events) - 1) :
       StepRank(events[i]) < StepRank(events[i + 1])
  /\ Happened("open") => Happened("parseFlags") /\ ArgsValid
  /\ Happened("convert") => Happened("open") /\ fileOK
  /\ Happened("push") =>
       Happened("convert") /\ pc = "done" /\ result.err = "nil"
  /\ Happened("POST api") => Happened("push")
  /\ Happened("send") =>
       /\ Happened("push")
       /\ Happened("POST api") => resp.ok
       /\ args.w # ""
  /\ Happened("POST webhook") => Happened("send")

\* a run that has made both requests
C17_Witness ==
  /\ rpc = "returned"
  /\ events = <<"parseFlags", "open", "convert", "push", "POST api", "send",
                "POST webhook">>

\* runs stopped by a failed step, and a run without webhook URL
C17_StoppedReached ==
  /\ rpc = "returned"
  /\ runErr = "opening file"
  /\ events = <<"parseFlags", "open">>

\* the file has no transaction line: blank lines and the footer only
FileHasNoTransactions ==
  \A i \in 1..Len(reader.lines) :
    reader.lines[i].kind = "blank" \/ reader.lines[i] = RowFooter

\* C18: run on a file with no transactions posts nothing to the API, still
\* succeeds, reports 0 pushed and 0 duplicates, and still notifies the
\* webhook when one is configured.
C18_EmptyFileSucceeds ==
  (Happened("convert") /\ FileHasNoTransactions /\ RunEnded) =>
    /\ RunSucceeded
    /\ ~Happened("POST api")
    /\ Len(stdout) >= 2
    /\ stdout[Len(stdout) - 1] = PushedLine(0)
    /\ stdout[Len(stdout)] = DuplicatesLine(0)
    /\ args.w # "" => Happened("POST webhook")

\* the part of C18 that holds: once push has been called with no
\* transaction, nothing was posted, 0 pushed and 0 duplicates are reported,
\* the webhook is notified when configured, and run fails only if that
\* notification fails
C18_EmptyPushSkipsRequest ==
  (Happened("push") /\ Len(result.transactions) = 0) =>
    /\ ~Happened("POST api")
    /\ resp = NoResponse
    /\ stdout[Len(stdout) - 1] = PushedLine(0)
    /\ stdout[Len(stdout)] = DuplicatesLine(0)
    /\ rpc = "returned" =>
         /\ args.w # "" <=> Happened("POST webhook")
         /\ runErr = "nil"
            \/ (args.w # "" /\ HasPrefix(runErr, "sending webhook"))

C18_EmptyPushReached ==
  /\ RunSucceeded
  /\ FileHasNoTransactions
  /\ Happened("POST webhook")
  /\ ~Happened("POST api")

====
